---- MODULE Spec2Model ----
(***************************************************************************)
(* Concord signaling relay: the room registry (server/roomManager.js) and  *)
(* the per-connection Socket.IO handlers (server/index.js); and the page   *)
(* behind each connection: ConcordApp's participant list and the           *)
(* WebRTCManager's peer links (public/js/socket.js).                       *)
(*                                                                         *)
(* Spec is the relay alone; Mesh is the relay with a page behind every     *)
(* socket; Calm is the mesh of pages that join and stay, with fair event   *)
(* loops; Audio is one page with its links and its sampling loops.         *)
(*                                                                         *)
(* Socket ids and room ids are both strings of one namespace (a Socket.IO  *)
(* room name); they are modelled as the integers of Names.  Every socket   *)
(* is a member of the Socket.IO room named by its own id.                  *)
(***************************************************************************)
EXTENDS Integers, Sequences, FiniteSets, TLC

\* ------------------------------------------------------------------ bounds
MaxConns == 3
MaxRooms == 2
\* messages the relay has sent to one page and the page has not yet handled
MaxInbox == 2

ConnIds == 1..MaxConns
RoomIds == (MaxConns + 1)..(MaxConns + MaxRooms)
\* every string a client can send as roomId / to / targetSocketId
Names == ConnIds \cup RoomIds

\* A behaviour is one of two populations: every connection with one room
\* id in use, or one connection fewer with every room id in use.  In the
\* second the user of the last page also sends signaling messages by hand.
Scopes ==
  {[conns |-> ConnIds, rooms |-> {MaxConns + 1}, byHand |-> {}],
   [conns |-> 1..(MaxConns - 1), rooms |-> RoomIds,
    byHand |-> {MaxConns - 1}]}

\* let currentRoomId = null; let currentUsername = null
Null == 0

\* ------------------------------------------------------------------ text
\* a JavaScript value received as text: a string (its characters), or
\* something that is absent / not a string
Str(cs) == [kind |-> "string", chars |-> cs]
Absent == [kind |-> "undefined", chars |-> <<>>]
NotAString == [kind |-> "number", chars |-> <<>>]

Letters == {"a", "b", "Z", "A", "n", "o", "y", "m", "u", "s"}
Digits == {"7"}
Whitespace == {" "}
\* the characters /[^a-zA-Z0-9\s\-\_\.]/ keeps
AllowedChars == Letters \cup Digits \cup Whitespace \cup {"-", "_", "."}

UsernameMaxLen == 50
MessageMaxLen == 1000

Anonymous == <<"A", "n", "o", "n", "y", "m", "o", "u", "s">>

RECURSIVE TrimStart(_)
TrimStart(cs) ==
  IF cs # <<>> /\ Head(cs) \in Whitespace THEN TrimStart(Tail(cs)) ELSE cs

RECURSIVE TrimEnd(_)
TrimEnd(cs) ==
  IF cs # <<>> /\ cs[Len(cs)] \in Whitespace
  THEN TrimEnd(SubSeq(cs, 1, Len(cs) - 1))
  ELSE cs

\* String.prototype.trim
Trim(cs) == TrimEnd(TrimStart(cs))

\* bug: nothing is cut off
SliceAll(cs, n) == cs

\* String.prototype.slice(0, n)
Slice(cs, n) == IF Len(cs) <= n THEN cs ELSE SubSeq(cs, 1, n)

\* .replace(/[^a-zA-Z0-9\s\-\_\.]/g, '')
StripDisallowed(cs) == SelectSeq(cs, LAMBDA c : c \in AllowedChars)

sanitizeUsername(username) ==
  IF username.kind # "string" \/ username.chars = <<>>
  THEN Anonymous
  ELSE LET r == StripDisallowed(Slice(Trim(username.chars), UsernameMaxLen))
       IN  IF r = <<>> THEN Anonymous ELSE r

\* bug: the message is cut but not trimmed
sanitizeMessageUntrimmed(message) ==
  IF message.kind # "string" \/ message.chars = <<>>
  THEN <<>>
  ELSE Slice(message.chars, MessageMaxLen)

sanitizeMessage(message) ==
  IF message.kind # "string" \/ message.chars = <<>>
  THEN <<>>
  ELSE Slice(Trim(message.chars), MessageMaxLen)

\* ------------------------------------------------------------------ inputs
\* the texts a function is called with: every text of at most MaxText
\* characters out of TextChars, and texts about as long as a limit
MaxText == 3
TextChars == {"a", " ", "!", "-"}
ShortTexts == UNION {[1..n -> TextChars] : n \in 0..MaxText}
Fill(n) == [i \in 1..n |-> "a"]
LongTexts(limit) ==
  UNION {{Fill(n), <<" ">> \o Fill(n), Fill(n) \o <<" ">>,
          <<"!">> \o Fill(n), Fill(n) \o <<" ", "b">>} :
           n \in (limit - 1)..(limit + 1)}
Texts ==
  {Absent, NotAString} \cup
  {Str(cs) : cs \in ShortTexts \cup LongTexts(UsernameMaxLen)
                               \cup LongTexts(MessageMaxLen)}

\* the usernames clients type, one per client
RawUsernames == <<Absent, Str(<<" ", "a", "!">>), Str(<<"Z", "7">>)>>
\* what the client of socket s sends with join-room: its username and its
\* media tag (peerId)
JoinInputs(s) ==
  {[username |-> RawUsernames[((s - 1) % Len(RawUsernames)) + 1],
    peerId |-> <<"peer", s>>]}
RawMessages == {Absent, Str(<<" ">>), Str(<<"h", "i", " ">>)}
ErrNotCreator == [message |-> "Only the room creator can kick users"]
ErrKickSelf == [message |-> "Cannot kick yourself"]
Payloads == {"sdp"}
SignalEvents == {"webrtc-offer", "webrtc-answer", "ice-candidate"}
\* the events whose listener takes its payload apart in its parameter list
PayloadEvents ==
  {"join-room", "send-message", "toggle-mute", "kick-user"} \cup SignalEvents

\* ------------------------------------------------------------------ audio
\* how many samples one sampling loop takes in a behaviour, and how many
\* loops detectSpeaking starts
MaxTicks == 4
MaxDetectors == 1

\* the page whose sampling loops are followed
AudioPage == 1

\* the volumes a sample has: silence and a loud frame
Volumes == {0, 40}

\* the samples of the histories a loop is called with, by length and by
\* value, and the volumes of the frame it then reads: around the floor of
\* 5 and around one and a half times the average
MaxHistory == 2
HistoryVolumes == {0, 4, 6}
FrameVolumes == {0, 5, 6, 10, 40}

\* the id 'local' of the page's own speaking events
Local == Null

\* const historyLength, of monitorLocalAudio and of detectSpeaking
LocalHistoryLength == 100
RemoteHistoryLength == 50

\* no function call is followed
NoCall == [fn |-> "none"]

\* no call of callbacks.peerDisconnected, counted per socket id
NoCalls == [n \in Names |-> 0]

\* monitorLocalAudio has not run: no loop, no sample
NoMonitor ==
  [scheduled |-> FALSE, isLocalSpeaking |-> FALSE, volumeHistory |-> <<>>]

\* ------------------------------------------------------------------ state
VARIABLES
  scope,            \* the connections and room ids of this behaviour
  conn,             \* socket id -> "idle" | "open" | "closed"
  currentRoomId,    \* per-connection closure variable
  currentUsername,  \* per-connection closure variable
  socketRooms,      \* socket id -> the Socket.IO rooms the socket is in
  rooms,            \* RoomManager.rooms: room id -> Room
  emitted,          \* the messages the last handler sent, in order
  inbox,            \* socket id -> relay messages its page has yet to handle
  participants,     \* socket id -> its page's ConcordApp.participants
  peers,            \* socket id -> its page's WebRTCManager.peers
  simplePeers,      \* socket id -> remote id -> live SimplePeer objects
  localStream,      \* socket id -> its page holds a live local stream
  localMuted,       \* socket id -> its page's WebRTCManager.isMuted
  peerDisconnected, \* the ids the last step's peerDisconnected calls named
  monitor,          \* the closure of monitorLocalAudio on the audio page
  detectors,        \* the closures detectSpeaking made on the audio page
  speaking,         \* the last step's speaking calls, in order
  given,            \* the argument a function is called with
  returned          \* what the call returned

relayVars ==
  <<conn, currentRoomId, currentUsername, socketRooms, rooms, emitted>>
appVars == <<participants, peers, simplePeers, localStream, localMuted>>
pageVars == <<inbox, appVars, peerDisconnected>>
audioVars == <<monitor, detectors, speaking>>
callVars == <<given, returned>>
vars == <<scope, relayVars, pageVars, audioVars, callVars>>

\* every string a client of this behaviour sends as to / targetSocketId
Targets == scope.conns \cup scope.rooms

\* ------------------------------------------------------------------ Room
Participant(socketId, username, peerId) ==
  [socketId |-> socketId, username |-> username, peerId |-> peerId,
   isMuted |-> FALSE]

Room(id, creatorSocketId) ==
  [id |-> id, creator |-> creatorSocketId, participants |-> <<>>]

\* position of the key in the insertion-ordered Map, 0 when absent
IndexOf(ps, socketId) ==
  IF \E i \in 1..Len(ps) : ps[i].socketId = socketId
  THEN CHOOSE i \in 1..Len(ps) : ps[i].socketId = socketId
  ELSE 0

\* Map.set: a present key keeps its position and gets the new value
addParticipant(room, socketId, username, peerId) ==
  LET p == Participant(socketId, username, peerId)
      i == IndexOf(room.participants, socketId)
  IN  [room EXCEPT !.participants =
         IF i = 0 THEN Append(@, p) ELSE [@ EXCEPT ![i] = p]]

\* bug: when the creator is removed the oldest remaining participant
\* succeeds it
removeParticipantSuccession(room, socketId) ==
  LET rest == SelectSeq(room.participants, LAMBDA p : p.socketId # socketId)
  IN  [room EXCEPT !.participants = rest,
                   !.creator = IF @ = socketId /\ rest # <<>>
                               THEN rest[1].socketId ELSE @]

\* bug: a removal clears the whole Map
removeParticipantAll(room, socketId) == [room EXCEPT !.participants = <<>>]

removeParticipant(room, socketId) ==
  [room EXCEPT !.participants =
     SelectSeq(@, LAMBDA p : p.socketId # socketId)]

\* bug: once the creator is no participant any more, the oldest
\* participant passes the creator check
isCreatorInherited(room, socketId) ==
  \/ room.creator = socketId
  \/ /\ IndexOf(room.participants, room.creator) = 0
     /\ IndexOf(room.participants, socketId) = 1

\* bug: the creator check passes for everyone
isCreatorAnyone(room, socketId) == TRUE

isCreator(room, socketId) == room.creator = socketId

\* participant.isMuted = isMuted
setMuted(room, socketId, isMuted) ==
  [room EXCEPT !.participants[IndexOf(room.participants, socketId)].isMuted =
     isMuted]

getParticipantsList(room) == room.participants

isEmpty(room) == Len(room.participants) = 0

\* ------------------------------------------------------------------ RoomManager
HasRoom(rms, roomId) == roomId \in DOMAIN rms

\* bug: the has() test is missing, every join makes a new Room
getOrCreateRoomAlwaysNew(rms, roomId, creatorSocketId) ==
  [r \in DOMAIN rms \cup {roomId} |->
     IF r = roomId THEN Room(roomId, creatorSocketId) ELSE rms[r]]

getOrCreateRoom(rms, roomId, creatorSocketId) ==
  IF HasRoom(rms, roomId)
  THEN rms
  ELSE [r \in DOMAIN rms \cup {roomId} |->
          IF r = roomId THEN Room(roomId, creatorSocketId) ELSE rms[r]]

\* bug: the empty room is left in the registry
removeRoomKeeps(rms, roomId) == rms

removeRoom(rms, roomId) == [r \in DOMAIN rms \ {roomId} |-> rms[r]]

SetRoom(rms, roomId, room) == [rms EXCEPT ![roomId] = room]

\* ------------------------------------------------------------------ Socket.IO
Msg(to, ev, arg) == [to |-> to, ev |-> ev, arg |-> arg]

\* the elements of a set of socket ids, in ascending order
RECURSIVE Ascending(_)
Ascending(S) ==
  IF S = {} THEN <<>>
  ELSE LET m == CHOOSE x \in S : \A y \in S : x <= y
       IN  <<m>> \o Ascending(S \ {m})

\* the connected sockets in the Socket.IO room `name`
InRoom(name) == {s \in ConnIds : conn[s] = "open" /\ name \in socketRooms[s]}

Deliver(targets, ev, arg) ==
  LET order == Ascending(targets)
  IN  [i \in 1..Len(order) |-> Msg(order[i], ev, arg)]

\* socket.emit(ev, arg)
SocketEmit(s, ev, arg) == <<Msg(s, ev, arg)>>
\* socket.to(name).emit(ev, arg): the room, except the sender
SocketTo(s, name, ev, arg) == Deliver(InRoom(name) \ {s}, ev, arg)
\* io.to(name).emit(ev, arg)
IoTo(name, ev, arg) == Deliver(InRoom(name), ev, arg)

\* ------------------------------------------------------------------ handlers
\* the relay runs a handler of socket s: s is connected
Receives(s) == conn[s] = "open" /\ UNCHANGED scope

Started ==
  /\ scope \in Scopes
  /\ conn = [s \in ConnIds |-> "idle"]
  /\ currentRoomId = [s \in ConnIds |-> Null]
  \* currentUsername = null: no name yet, written as the empty string
  /\ currentUsername = [s \in ConnIds |-> <<>>]
  /\ socketRooms = [s \in ConnIds |-> {}]
  /\ rooms = <<>>
  /\ emitted = <<>>
  /\ inbox = [s \in ConnIds |-> <<>>]
  /\ participants = [s \in ConnIds |-> <<>>]
  /\ peers = [s \in ConnIds |-> <<>>]
  /\ simplePeers = [s \in ConnIds |-> [n \in Names |-> 0]]
  /\ localStream = [s \in ConnIds |-> FALSE]
  /\ localMuted = [s \in ConnIds |-> FALSE]
  /\ peerDisconnected = NoCalls
  /\ monitor = NoMonitor
  /\ detectors = <<>>
  /\ speaking = <<>>

\* no function is being called
Init ==
  /\ Started
  /\ given = NoCall
  /\ returned = NoCall

\* io.on('connection')
Connect(s) ==
  /\ s \in scope.conns
  /\ conn[s] = "idle"
  \* socket ids are handed out in order of connection
  /\ \A o \in ConnIds : o < s => conn[o] # "idle"
  /\ conn' = [conn EXCEPT ![s] = "open"]
  /\ socketRooms' = [socketRooms EXCEPT ![s] = {s}]
  /\ emitted' = <<>>
  /\ UNCHANGED <<scope, currentRoomId, currentUsername, rooms>>

\* socket.on('join-room')
JoinRoom(s, roomId, username, peerId) ==
  /\ Receives(s)
  /\ LET sanitizedUsername == sanitizeUsername(username)
         rms1 == getOrCreateRoom(rooms, roomId, s)
         room == addParticipant(rms1[roomId], s, sanitizedUsername, peerId)
         otherParticipants ==
           SelectSeq(getParticipantsList(room), LAMBDA p : p.socketId # s)
     IN  /\ rooms' = SetRoom(rms1, roomId, room)
         /\ socketRooms' = [socketRooms EXCEPT ![s] = @ \cup {roomId}]
         /\ currentRoomId' = [currentRoomId EXCEPT ![s] = roomId]
         /\ currentUsername' = [currentUsername EXCEPT ![s] = sanitizedUsername]
         /\ emitted' =
              SocketEmit(s, "room-joined",
                         [participants |-> otherParticipants,
                          isCreator |-> isCreator(room, s)])
              \o SocketTo(s, roomId, "user-joined",
                          [socketId |-> s, username |-> sanitizedUsername,
                           peerId |-> peerId])
  /\ UNCHANGED conn

\* socket.on('webrtc-offer' | 'webrtc-answer' | 'ice-candidate')
Signal(s, ev, to, payload) ==
  /\ Receives(s)
  /\ emitted' = SocketTo(s, to, ev, [from |-> s, payload |-> payload])
  /\ UNCHANGED <<conn, currentRoomId, currentUsername, socketRooms, rooms>>

\* a listener called with no payload (socket.emit(ev) without argument, or
\* null): taking undefined apart in the parameter list throws before the
\* first statement of the body, outside the try of join-room; the other
\* listeners have no try. No statement runs and nothing is emitted.
MissingPayload(s, ev) ==
  /\ Receives(s)
  /\ ev \in PayloadEvents
  /\ emitted' = <<>>
  /\ UNCHANGED <<conn, currentRoomId, currentUsername, socketRooms, rooms>>

\* socket.on('send-message'); the timestamp field (Date.now()) is left out
SendMessage(s, message) ==
  /\ Receives(s)
  /\ LET sanitizedMessage == sanitizeMessage(message)
     IN  emitted' =
           IF currentRoomId[s] = Null \/ sanitizedMessage = <<>>
           THEN <<>>
           ELSE IoTo(currentRoomId[s], "receive-message",
                     [username |-> currentUsername[s],
                      message |-> sanitizedMessage, socketId |-> s])
  /\ UNCHANGED <<conn, currentRoomId, currentUsername, socketRooms, rooms>>

\* socket.on('toggle-mute')
ToggleMute(s, isMuted) ==
  /\ Receives(s)
  /\ LET roomId == currentRoomId[s]
     IN  IF roomId = Null \/ ~HasRoom(rooms, roomId)
            \/ IndexOf(rooms[roomId].participants, s) = 0
         THEN /\ emitted' = <<>>
              /\ UNCHANGED rooms
         ELSE /\ rooms' = SetRoom(rooms, roomId, setMuted(rooms[roomId], s, isMuted))
              /\ emitted' = SocketTo(s, roomId, "user-muted",
                                     [socketId |-> s, isMuted |-> isMuted])
  /\ UNCHANGED <<conn, currentRoomId, currentUsername, socketRooms>>

\* socket.on('kick-user')
KickUser(s, targetSocketId) ==
  /\ Receives(s)
  /\ LET roomId == currentRoomId[s]
     IN  IF roomId = Null \/ ~HasRoom(rooms, roomId)
         THEN /\ emitted' = <<>>
              /\ UNCHANGED <<rooms, socketRooms>>
         ELSE IF ~isCreator(rooms[roomId], s)
         THEN /\ emitted' = SocketEmit(s, "error", ErrNotCreator)
              /\ UNCHANGED <<rooms, socketRooms>>
         ELSE IF targetSocketId = s
         THEN /\ emitted' = SocketEmit(s, "error", ErrKickSelf)
              /\ UNCHANGED <<rooms, socketRooms>>
         ELSE /\ rooms' = SetRoom(rooms, roomId,
                                  removeParticipant(rooms[roomId], targetSocketId))
              /\ emitted' =
                   IoTo(targetSocketId, "you-were-kicked", <<>>)
                   \o SocketTo(s, roomId, "user-kicked",
                               [socketId |-> targetSocketId])
              \* io.sockets.sockets.get(targetSocketId): a connected socket
              /\ socketRooms' =
                   IF targetSocketId \in ConnIds /\ conn[targetSocketId] = "open"
                   THEN [socketRooms EXCEPT ![targetSocketId] = @ \ {roomId}]
                   ELSE socketRooms
  /\ UNCHANGED <<conn, currentRoomId, currentUsername>>

\* socket.on('disconnect'): the socket has already left all its rooms
Disconnect(s) ==
  /\ Receives(s)
  /\ conn' = [conn EXCEPT ![s] = "closed"]
  /\ socketRooms' = [socketRooms EXCEPT ![s] = {}]
  /\ LET roomId == currentRoomId[s]
     IN  IF roomId = Null \/ ~HasRoom(rooms, roomId)
         THEN /\ emitted' = <<>>
              /\ UNCHANGED rooms
         ELSE LET room == removeParticipant(rooms[roomId], s)
                  rms1 == SetRoom(rooms, roomId, room)
              IN  /\ emitted' = SocketTo(s, roomId, "user-left", [socketId |-> s])
                  /\ rooms' = IF isEmpty(room)
                              THEN removeRoom(rms1, roomId)
                              ELSE rms1
  /\ UNCHANGED <<currentRoomId, currentUsername>>

\* a step of the relay alone: the pages are left out of it
Next ==
  \/ \E s \in ConnIds : Connect(s) /\ UNCHANGED <<pageVars, audioVars, callVars>>
  \/ \E s \in ConnIds, roomId \in scope.rooms :
        \E in \in JoinInputs(s) :
          JoinRoom(s, roomId, in.username, in.peerId) /\ UNCHANGED <<pageVars, audioVars, callVars>>
  \/ \E s \in ConnIds, ev \in SignalEvents, to \in Targets, payload \in Payloads :
        Signal(s, ev, to, payload) /\ UNCHANGED <<pageVars, audioVars, callVars>>
  \/ \E s \in ConnIds, message \in RawMessages :
        SendMessage(s, message) /\ UNCHANGED <<pageVars, audioVars, callVars>>
  \/ \E s \in ConnIds, isMuted \in BOOLEAN :
        ToggleMute(s, isMuted) /\ UNCHANGED <<pageVars, audioVars, callVars>>
  \/ \E s \in ConnIds, targetSocketId \in Targets :
        KickUser(s, targetSocketId) /\ UNCHANGED <<pageVars, audioVars, callVars>>
  \/ \E s \in ConnIds : Disconnect(s) /\ UNCHANGED <<pageVars, audioVars, callVars>>
  \/ \E s \in ConnIds, ev \in PayloadEvents :
        MissingPayload(s, ev) /\ UNCHANGED <<pageVars, audioVars, callVars>>

\* the relay alone, driven by whatever a socket can send
Spec == Init /\ [][Next]_vars

\* ------------------------------------------------------------------ Map
\* a JavaScript Map: a function on its keys
MapSet(map, key, value) ==
  [k \in DOMAIN map \cup {key} |-> IF k = key THEN value ELSE map[k]]
MapDelete(map, key) == [k \in DOMAIN map \ {key} |-> map[k]]

\* ------------------------------------------------------------------ WebRTCManager
\* new SimplePeer({initiator}): an initiator wants to send an offer
SimplePeer(isInitiator) ==
  [initiator |-> isInitiator,
   toSend |-> IF isInitiator THEN {"webrtc-offer"} ELSE {},
   applied |-> {}]

\* peer.signal(data): a responder that is given an offer wants to send an
\* answer
signal(peer, ev) ==
  [peer EXCEPT !.applied = @ \cup {ev},
               !.toSend = IF ev = "webrtc-offer" /\ ~peer.initiator
                          THEN @ \cup {"webrtc-answer"} ELSE @]

\* the state of one page: app.participants, webrtcManager.peers, the
\* SimplePeer objects made and not destroyed, counted per remote id, the
\* local stream, the mute flag, and the peerDisconnected calls of the
\* handler that runs
Page(c) ==
  [participants |-> participants[c], peers |-> peers[c],
   simplePeers |-> simplePeers[c], localStream |-> localStream[c],
   isMuted |-> localMuted[c], peerDisconnected |-> NoCalls]

NoPage ==
  [participants |-> <<>>, peers |-> <<>>,
   simplePeers |-> [n \in Names |-> 0], localStream |-> FALSE,
   isMuted |-> FALSE, peerDisconnected |-> NoCalls]

\* bug: the has() test is missing, the Map entry is overwritten
createPeerConnectionAgain(app, remoteSocketId, isInitiator) ==
  [app EXCEPT
     !.peers = MapSet(@, remoteSocketId, SimplePeer(isInitiator)),
     !.simplePeers[remoteSocketId] = @ + 1]

createPeerConnection(app, remoteSocketId, isInitiator) ==
  IF remoteSocketId \in DOMAIN app.peers
  THEN app
  ELSE [app EXCEPT
          !.peers = MapSet(@, remoteSocketId, SimplePeer(isInitiator)),
          !.simplePeers[remoteSocketId] = @ + 1]

\* bug: the offer is given to the link of its sender, made now or before
handleOfferApplies(app, fromSocketId) ==
  [createPeerConnection(app, fromSocketId, FALSE) EXCEPT
     !.peers[fromSocketId] = signal(@, "webrtc-offer")]

\* bug: an offer makes no link
handleOfferIgnores(app, fromSocketId) == app

\* createPeerConnection returns the peer it made, or undefined when it
\* made none; the offer is given to the returned peer only
handleOffer(app, fromSocketId) ==
  LET made == createPeerConnection(app, fromSocketId, FALSE)
  IN  IF made = app
      THEN app
      ELSE [made EXCEPT !.peers[fromSocketId] = signal(@, "webrtc-offer")]

\* bug: an answer of an unknown sender makes a link for it
handleAnswerCreates(app, fromSocketId) ==
  [createPeerConnection(app, fromSocketId, FALSE) EXCEPT
     !.peers[fromSocketId] = signal(@, "webrtc-answer")]

handleAnswer(app, fromSocketId) ==
  IF fromSocketId \in DOMAIN app.peers
  THEN [app EXCEPT !.peers[fromSocketId] = signal(@, "webrtc-answer")]
  ELSE app

handleICECandidate(app, fromSocketId) ==
  IF fromSocketId \in DOMAIN app.peers
  THEN [app EXCEPT !.peers[fromSocketId] = signal(@, "ice-candidate")]
  ELSE app

\* bug: every link of the page is torn down with the one named
removePeerEvery(app, socketId) ==
  [app EXCEPT !.peers = <<>>,
              !.simplePeers = [n \in Names |-> 0],
              !.peerDisconnected[socketId] = @ + 1]

\* peer.destroy(); this.peers.delete(socketId); then, link or no link,
\* callbacks.peerDisconnected(socketId)
removePeer(app, socketId) ==
  LET gone == IF socketId \in DOMAIN app.peers
              THEN [app EXCEPT !.peers = MapDelete(@, socketId),
                               !.simplePeers[socketId] = @ - 1]
              ELSE app
  IN  [gone EXCEPT !.peerDisconnected[socketId] = @ + 1]

\* this.peers.forEach((peer, socketId) => this.removePeer(socketId))
RECURSIVE removePeers(_)
removePeers(app) ==
  IF DOMAIN app.peers = {}
  THEN app
  ELSE removePeers(removePeer(app, CHOOSE k \in DOMAIN app.peers : TRUE))

\* bug: the local stream is kept
cleanupKeepsStream(app) == removePeers(app)

\* every link is removed, the local tracks are stopped, localStream = null
cleanup(app) == [removePeers(app) EXCEPT !.localStream = FALSE]

\* this.isMuted = !this.isMuted, on a page that has a local stream
toggleMute(app) ==
  IF ~app.localStream THEN app ELSE [app EXCEPT !.isMuted = ~@]

\* ------------------------------------------------------------------ detectors
RECURSIVE Sum(_)
Sum(history) ==
  IF history = <<>> THEN 0 ELSE Head(history) + Sum(Tail(history))

\* volumeHistory.push(volume); if (length > historyLength) shift()
pushVolume(history, volume, historyLength) ==
  LET pushed == Append(history, volume)
  IN  IF Len(pushed) > historyLength THEN Tail(pushed) ELSE pushed

\* bug: the average is that of the samples before this frame
aboveThresholdBefore(history, volume) ==
  /\ volume > 5
  /\ 2 * volume * (Len(history) - 1) > 3 * (Sum(history) - volume)

\* volume > Math.max(5, avgVolume * 1.5), where avgVolume is the sum of the
\* history over its length; in whole numbers
aboveThreshold(history, volume) ==
  /\ volume > 5
  /\ 2 * volume * Len(history) > 3 * Sum(history)

Speaking(id, isSpeaking) == [id |-> id, isSpeaking |-> isSpeaking]

\* bug: the mute flag is not looked at
checkLocalAudioLevelHears(mon, app, volume) ==
  IF ~app.localStream
  THEN [monitor |-> [mon EXCEPT !.scheduled = FALSE], speaking |-> <<>>]
  ELSE LET history ==
             pushVolume(mon.volumeHistory, volume, LocalHistoryLength)
           newIsLocalSpeaking == aboveThreshold(history, volume)
       IN  [monitor |->
              [scheduled |-> TRUE,
               isLocalSpeaking |-> newIsLocalSpeaking,
               volumeHistory |-> history],
            speaking |->
              IF newIsLocalSpeaking # mon.isLocalSpeaking
              THEN <<Speaking(Local, newIsLocalSpeaking)>>
              ELSE <<>>]

\* one run of checkLocalAudioLevel: without a local stream it returns and
\* asks for no further frame
checkLocalAudioLevel(mon, app, volume) ==
  IF ~app.localStream
  THEN [monitor |-> [mon EXCEPT !.scheduled = FALSE], speaking |-> <<>>]
  ELSE LET history ==
             pushVolume(mon.volumeHistory, volume, LocalHistoryLength)
           newIsLocalSpeaking ==
             aboveThreshold(history, volume) /\ ~app.isMuted
       IN  [monitor |->
              [scheduled |-> TRUE,
               isLocalSpeaking |-> newIsLocalSpeaking,
               volumeHistory |-> history],
            speaking |->
              IF newIsLocalSpeaking # mon.isLocalSpeaking
              THEN <<Speaking(Local, newIsLocalSpeaking)>>
              ELSE <<>>]

\* the closure detectSpeaking(socketId, stream) makes; live: the stream
\* still carries the remote's audio
Detector(socketId) ==
  [socketId |-> socketId, live |-> TRUE, scheduled |-> FALSE,
   isSpeaking |-> FALSE, volumeHistory |-> <<>>]

\* bug: the callback is called on every run, changed flag or not
checkAudioLevelAlways(det, volume) ==
  LET history == pushVolume(det.volumeHistory, volume, RemoteHistoryLength)
      newIsSpeaking == aboveThreshold(history, volume)
  IN  [detector |->
         [det EXCEPT !.scheduled = TRUE,
                     !.isSpeaking = newIsSpeaking,
                     !.volumeHistory = history],
       speaking |-> <<Speaking(det.socketId, newIsSpeaking)>>]

\* one run of checkAudioLevel: it always asks for the next frame
checkAudioLevel(det, volume) ==
  LET history == pushVolume(det.volumeHistory, volume, RemoteHistoryLength)
      newIsSpeaking == aboveThreshold(history, volume)
  IN  [detector |->
         [det EXCEPT !.scheduled = TRUE,
                     !.isSpeaking = newIsSpeaking,
                     !.volumeHistory = history],
       speaking |->
         IF newIsSpeaking # det.isSpeaking
         THEN <<Speaking(det.socketId, newIsSpeaking)>>
         ELSE <<>>]

\* ------------------------------------------------------------------ ConcordApp
\* what app.participants keeps of a participant; the key is its socket id
Entry(username, peerId, isMuted) ==
  [username |-> username, peerId |-> peerId, isMuted |-> isMuted]

\* data.participants.forEach: list the participant, call it as initiator
RECURSIVE handleRoomJoined(_, _)
handleRoomJoined(app, roster) ==
  IF roster = <<>>
  THEN app
  ELSE LET p == Head(roster)
           listed == [app EXCEPT !.participants =
                        MapSet(@, p.socketId,
                               Entry(p.username, p.peerId, p.isMuted))]
       IN  handleRoomJoined(createPeerConnection(listed, p.socketId, TRUE),
                            Tail(roster))

\* bug: the page also calls the newcomer, as initiator
handleUserJoinedCalls(app, data) ==
  createPeerConnection(
    [app EXCEPT !.participants =
       MapSet(@, data.socketId, Entry(data.username, data.peerId, FALSE))],
    data.socketId, TRUE)

\* the WebRTC connection is left to the new user
handleUserJoined(app, data) ==
  [app EXCEPT !.participants =
     MapSet(@, data.socketId, Entry(data.username, data.peerId, FALSE))]

handleUserLeft(app, data) ==
  removePeer([app EXCEPT !.participants = MapDelete(@, data.socketId)],
             data.socketId)

handleUserKicked(app, data) ==
  removePeer([app EXCEPT !.participants = MapDelete(@, data.socketId)],
             data.socketId)

handleYouWereKicked(app) == cleanup(app)

\* bug: the notification is not applied
handleUserMutedIgnores(app, data) == app

\* participant.isMuted = data.isMuted, when the sender is listed
handleUserMuted(app, data) ==
  IF data.socketId \in DOMAIN app.participants
  THEN [app EXCEPT !.participants[data.socketId].isMuted = data.isMuted]
  ELSE app

\* ------------------------------------------------------------------ pages
\* the relay's messages for socket c, in the order it sent them
ToSocket(em, c) == SelectSeq(em, LAMBDA msg : msg.to = c)

\* the messages of the relay's handler reach the pages' sockets; a closed
\* socket gets and keeps nothing
Enqueue ==
  /\ inbox' = [c \in ConnIds |->
                 IF conn'[c] = "open"
                 THEN inbox[c] \o ToSocket(emitted', c)
                 ELSE <<>>]
  /\ \A c \in ConnIds : Len(inbox'[c]) <= MaxInbox

SetPage(c, app) ==
  /\ participants' = [participants EXCEPT ![c] = app.participants]
  /\ peers' = [peers EXCEPT ![c] = app.peers]
  /\ simplePeers' = [simplePeers EXCEPT ![c] = app.simplePeers]
  /\ localStream' = [localStream EXCEPT ![c] = app.localStream]
  /\ localMuted' = [localMuted EXCEPT ![c] = app.isMuted]
  /\ peerDisconnected' = app.peerDisconnected

\* handleJoinRoom: webrtcManager.initialize() got the local stream, then
\* socketManager.connect()
PageConnect(c) ==
  /\ Connect(c)
  /\ Enqueue
  /\ localStream' = [localStream EXCEPT ![c] = TRUE]
  /\ peerDisconnected' = NoCalls
  /\ UNCHANGED <<participants, peers, simplePeers, localMuted>>

\* handleJoinRoom: a page joins once, the room of its URL
PageJoin(c, roomId) ==
  /\ currentRoomId[c] = Null
  /\ \E in \in JoinInputs(c) : JoinRoom(c, roomId, in.username, in.peerId)
  /\ Enqueue
  /\ peerDisconnected' = NoCalls
  /\ UNCHANGED appVars

\* handleKickUser: the creator's page has a Kick button for every
\* participant it lists
PageKick(c, targetSocketId) ==
  /\ currentRoomId[c] # Null
  /\ HasRoom(rooms, currentRoomId[c])
  /\ isCreator(rooms[currentRoomId[c]], c)
  /\ targetSocketId \in DOMAIN participants[c]
  /\ KickUser(c, targetSocketId)
  /\ Enqueue
  /\ peerDisconnected' = NoCalls
  /\ UNCHANGED appVars

\* the page is closed
PageClose(c) ==
  /\ Disconnect(c)
  /\ Enqueue
  /\ SetPage(c, NoPage)

\* peer.on('signal'): the peer's offer or answer goes to the relay
PeerSignal(c, remoteSocketId, ev) ==
  /\ remoteSocketId \in DOMAIN peers[c]
  /\ ev \in peers[c][remoteSocketId].toSend
  /\ \E payload \in Payloads : Signal(c, ev, remoteSocketId, payload)
  /\ Enqueue
  /\ peers' = [peers EXCEPT ![c][remoteSocketId].toSend = @ \ {ev}]
  /\ peerDisconnected' = NoCalls
  /\ UNCHANGED <<participants, simplePeers, localStream, localMuted>>

\* a signaling message sent by hand, whatever the page's peers are
RawSignal(s, ev, to) ==
  /\ s \in scope.byHand
  /\ \E payload \in Payloads : Signal(s, ev, to, payload)
  /\ emitted' # <<>>
  /\ Enqueue
  /\ peerDisconnected' = NoCalls
  /\ UNCHANGED appVars

\* socket.on(ev): the page of socket c handles the oldest message
On(c, ev) ==
  /\ conn[c] = "open"
  /\ inbox[c] # <<>>
  /\ Head(inbox[c]).ev = ev
  /\ inbox' = [inbox EXCEPT ![c] = Tail(@)]
  /\ UNCHANGED <<scope, relayVars>>

OnRoomJoined(c) ==
  /\ On(c, "room-joined")
  /\ SetPage(c, handleRoomJoined(Page(c), Head(inbox[c]).arg.participants))

OnUserJoined(c) ==
  /\ On(c, "user-joined")
  /\ SetPage(c, handleUserJoined(Page(c), Head(inbox[c]).arg))

OnUserLeft(c) ==
  /\ On(c, "user-left")
  /\ SetPage(c, handleUserLeft(Page(c), Head(inbox[c]).arg))

OnUserKicked(c) ==
  /\ On(c, "user-kicked")
  /\ SetPage(c, handleUserKicked(Page(c), Head(inbox[c]).arg))

OnYouWereKicked(c) ==
  /\ On(c, "you-were-kicked")
  /\ SetPage(c, handleYouWereKicked(Page(c)))

OnWebrtcOffer(c) ==
  /\ On(c, "webrtc-offer")
  /\ SetPage(c, handleOffer(Page(c), Head(inbox[c]).arg.from))

OnWebrtcAnswer(c) ==
  /\ On(c, "webrtc-answer")
  /\ SetPage(c, handleAnswer(Page(c), Head(inbox[c]).arg.from))

OnIceCandidate(c) ==
  /\ On(c, "ice-candidate")
  /\ SetPage(c, handleICECandidate(Page(c), Head(inbox[c]).arg.from))

MeshNext ==
  \/ /\ \E c \in ConnIds : PageConnect(c)
     /\ UNCHANGED <<audioVars, callVars>>
  \/ /\ \E c \in ConnIds, roomId \in scope.rooms : PageJoin(c, roomId)
     /\ UNCHANGED <<audioVars, callVars>>
  \/ /\ \E c \in ConnIds, t \in ConnIds : PageKick(c, t)
     /\ UNCHANGED <<audioVars, callVars>>
  \/ /\ \E c \in ConnIds : PageClose(c)
     /\ UNCHANGED <<audioVars, callVars>>
  \/ /\ \E c \in ConnIds, r \in ConnIds, ev \in SignalEvents : PeerSignal(c, r, ev)
     /\ UNCHANGED <<audioVars, callVars>>
  \/ /\ \E s \in ConnIds, ev \in SignalEvents, to \in Targets : RawSignal(s, ev, to)
     /\ UNCHANGED <<audioVars, callVars>>
  \/ /\ \E c \in ConnIds : OnRoomJoined(c)
     /\ UNCHANGED <<audioVars, callVars>>
  \/ /\ \E c \in ConnIds : OnUserJoined(c)
     /\ UNCHANGED <<audioVars, callVars>>
  \/ /\ \E c \in ConnIds : OnUserLeft(c)
     /\ UNCHANGED <<audioVars, callVars>>
  \/ /\ \E c \in ConnIds : OnUserKicked(c)
     /\ UNCHANGED <<audioVars, callVars>>
  \/ /\ \E c \in ConnIds : OnYouWereKicked(c)
     /\ UNCHANGED <<audioVars, callVars>>
  \/ /\ \E c \in ConnIds : OnWebrtcOffer(c)
     /\ UNCHANGED <<audioVars, callVars>>
  \/ /\ \E c \in ConnIds : OnWebrtcAnswer(c)
     /\ UNCHANGED <<audioVars, callVars>>
  \/ /\ \E c \in ConnIds : OnIceCandidate(c)
     /\ UNCHANGED <<audioVars, callVars>>

\* the relay with a page behind every socket
Mesh == Init /\ [][MeshNext]_vars

\* ------------------------------------------------------------------ calm mesh
\* the pages join and stay: nobody leaves, is kicked or sends by hand
CalmNext ==
  \/ /\ \E c \in ConnIds : PageConnect(c)
     /\ UNCHANGED <<audioVars, callVars>>
  \/ /\ \E c \in ConnIds, roomId \in scope.rooms : PageJoin(c, roomId)
     /\ UNCHANGED <<audioVars, callVars>>
  \/ /\ \E c \in ConnIds, r \in ConnIds, ev \in SignalEvents : PeerSignal(c, r, ev)
     /\ UNCHANGED <<audioVars, callVars>>
  \/ /\ \E c \in ConnIds : OnRoomJoined(c)
     /\ UNCHANGED <<audioVars, callVars>>
  \/ /\ \E c \in ConnIds : OnUserJoined(c)
     /\ UNCHANGED <<audioVars, callVars>>
  \/ /\ \E c \in ConnIds : OnWebrtcOffer(c)
     /\ UNCHANGED <<audioVars, callVars>>
  \/ /\ \E c \in ConnIds : OnWebrtcAnswer(c)
     /\ UNCHANGED <<audioVars, callVars>>

\* the event loop of page c runs the listener of its oldest message
PageHandles(c) ==
  /\ \/ OnRoomJoined(c)
     \/ OnUserJoined(c)
     \/ OnWebrtcOffer(c)
     \/ OnWebrtcAnswer(c)
  /\ UNCHANGED <<audioVars, callVars>>

\* the SimplePeer that page c keeps for r emits what it has to send
PeerSends(c, r) ==
  /\ \E ev \in SignalEvents : PeerSignal(c, r, ev)
  /\ UNCHANGED <<audioVars, callVars>>

\* every page goes on handling what it received, and every SimplePeer
\* emits its signal
CalmFair ==
  /\ \A c \in ConnIds : WF_vars(PageHandles(c))
  /\ \A c \in ConnIds, r \in ConnIds : WF_vars(PeerSends(c, r))

Calm == Init /\ [][CalmNext]_vars /\ CalmFair

\* ------------------------------------------------------------------ muting
\* handleToggleMute: the mute button; without a local stream toggleMute()
\* returns before it sends anything
PageMute(c) ==
  /\ localStream[c]
  /\ SetPage(c, toggleMute(Page(c)))
  /\ ToggleMute(c, ~localMuted[c])
  /\ Enqueue

OnUserMuted(c) ==
  /\ On(c, "user-muted")
  /\ SetPage(c, handleUserMuted(Page(c), Head(inbox[c]).arg))

\* the pages join, mute and leave; nobody is kicked and no link sends its
\* signals
MutingNext ==
  \/ /\ \E c \in ConnIds : PageConnect(c)
     /\ UNCHANGED <<audioVars, callVars>>
  \/ /\ \E c \in ConnIds, roomId \in scope.rooms : PageJoin(c, roomId)
     /\ UNCHANGED <<audioVars, callVars>>
  \/ /\ \E c \in ConnIds : PageMute(c)
     /\ UNCHANGED <<audioVars, callVars>>
  \/ /\ \E c \in ConnIds : PageClose(c)
     /\ UNCHANGED <<audioVars, callVars>>
  \/ /\ \E c \in ConnIds : OnRoomJoined(c)
     /\ UNCHANGED <<audioVars, callVars>>
  \/ /\ \E c \in ConnIds : OnUserJoined(c)
     /\ UNCHANGED <<audioVars, callVars>>
  \/ /\ \E c \in ConnIds : OnUserMuted(c)
     /\ UNCHANGED <<audioVars, callVars>>
  \/ /\ \E c \in ConnIds : OnUserLeft(c)
     /\ UNCHANGED <<audioVars, callVars>>

Muting == Init /\ [][MutingNext]_vars

\* ------------------------------------------------------------------ audio page
\* the steps of one page alone: its links are made and removed as its
\* handlers do, its SimplePeers fail, and its sampling loops run
OnAudioPage == UNCHANGED <<scope, relayVars, inbox, callVars>>

\* the streams of the destroyed SimplePeers have ended
StreamsEnded(ids) ==
  [i \in DOMAIN detectors |->
     IF detectors[i].socketId \in ids
     THEN [detectors[i] EXCEPT !.live = FALSE]
     ELSE detectors[i]]

\* initialize(): getUserMedia gave the stream, monitorLocalAudio() runs
\* checkLocalAudioLevel() once
Initialize(volume) ==
  /\ ~localStream[AudioPage]
  /\ monitor = NoMonitor
  /\ LET app == [Page(AudioPage) EXCEPT !.localStream = TRUE]
         ran == checkLocalAudioLevel(monitor, app, volume)
     IN  /\ SetPage(AudioPage, app)
         /\ monitor' = ran.monitor
         /\ speaking' = ran.speaking
  /\ UNCHANGED detectors
  /\ OnAudioPage

\* handleRoomJoined or handleOffer makes the link to remoteSocketId
CallPeer(remoteSocketId, isInitiator) ==
  /\ localStream[AudioPage]
  /\ remoteSocketId \notin DOMAIN peers[AudioPage]
  /\ SetPage(AudioPage,
             createPeerConnection(Page(AudioPage), remoteSocketId, isInitiator))
  /\ speaking' = <<>>
  /\ UNCHANGED <<monitor, detectors>>
  /\ OnAudioPage

\* peer.on('stream'): detectSpeaking(remoteSocketId, stream) runs
\* checkAudioLevel() once
PeerStream(remoteSocketId, volume) ==
  /\ remoteSocketId \in DOMAIN peers[AudioPage]
  /\ Len(detectors) < MaxDetectors
  /\ \A i \in DOMAIN detectors :
        detectors[i].socketId = remoteSocketId => ~detectors[i].live
  /\ LET ran == checkAudioLevel(Detector(remoteSocketId), volume)
     IN  /\ detectors' = Append(detectors, ran.detector)
         /\ speaking' = ran.speaking
  /\ peerDisconnected' = NoCalls
  /\ UNCHANGED <<appVars, monitor>>
  /\ OnAudioPage

\* the frame callback of monitorLocalAudio
LocalTick(volume) ==
  /\ monitor.scheduled
  /\ Len(monitor.volumeHistory) < MaxTicks \/ ~localStream[AudioPage]
  /\ LET ran == checkLocalAudioLevel(monitor, Page(AudioPage), volume)
     IN  /\ monitor' = ran.monitor
         /\ speaking' = ran.speaking
  /\ peerDisconnected' = NoCalls
  /\ UNCHANGED <<appVars, detectors>>
  /\ OnAudioPage

\* the frame callback of the i-th detectSpeaking closure; an ended stream
\* reads as silence
RemoteTick(i, volume) ==
  /\ i \in DOMAIN detectors
  /\ detectors[i].scheduled
  /\ Len(detectors[i].volumeHistory) < MaxTicks
  /\ detectors[i].live \/ volume = 0
  /\ LET ran == checkAudioLevel(detectors[i], volume)
     IN  /\ detectors' = [detectors EXCEPT ![i] = ran.detector]
         /\ speaking' = ran.speaking
  /\ peerDisconnected' = NoCalls
  /\ UNCHANGED <<appVars, monitor>>
  /\ OnAudioPage

\* the mute button
MuteButton ==
  /\ SetPage(AudioPage, toggleMute(Page(AudioPage)))
  /\ speaking' = <<>>
  /\ UNCHANGED <<monitor, detectors>>
  /\ OnAudioPage

\* this.removePeer(socketId) and what it does to the streams
LinkRemoved(socketId) ==
  /\ localStream[AudioPage]
  /\ SetPage(AudioPage, removePeer(Page(AudioPage), socketId))
  /\ detectors' = StreamsEnded({socketId})
  /\ speaking' = <<>>
  /\ UNCHANGED monitor
  /\ OnAudioPage

\* handleUserLeft, handleUserKicked: the relay told of a departure
Departure(socketId) ==
  /\ socketId # AudioPage
  /\ LinkRemoved(socketId)

\* peer.on('error'), of the SimplePeer the page keeps for remoteSocketId
PeerError(remoteSocketId) ==
  /\ remoteSocketId \in DOMAIN peers[AudioPage]
  /\ LinkRemoved(remoteSocketId)

\* peer.on('close')
PeerClose(remoteSocketId) ==
  /\ remoteSocketId \in DOMAIN peers[AudioPage]
  /\ LinkRemoved(remoteSocketId)

\* handleYouWereKicked: cleanup(), on a page that was initialized; it may
\* run again on the page it has cleaned
AudioCleanup ==
  /\ monitor # NoMonitor
  /\ SetPage(AudioPage, cleanup(Page(AudioPage)))
  /\ detectors' = StreamsEnded(ConnIds)
  /\ speaking' = <<>>
  /\ UNCHANGED monitor
  /\ OnAudioPage

AudioNext ==
  \/ \E volume \in Volumes : Initialize(volume)
  \/ \E r \in ConnIds \ {AudioPage}, isInitiator \in BOOLEAN :
        CallPeer(r, isInitiator)
  \/ \E r \in ConnIds \ {AudioPage}, volume \in Volumes :
        PeerStream(r, volume)
  \/ \E volume \in Volumes : LocalTick(volume)
  \/ \E i \in 1..MaxDetectors, volume \in Volumes : RemoteTick(i, volume)
  \/ MuteButton
  \/ \E r \in ConnIds \ {AudioPage} : Departure(r)
  \/ \E r \in ConnIds \ {AudioPage} : PeerError(r)
  \/ \E r \in ConnIds \ {AudioPage} : PeerClose(r)
  \/ AudioCleanup

\* one page, its links and its sampling loops
Audio == Init /\ [][AudioNext]_vars

\* ------------------------------------------------------------------ calls
\* the functions of the relay and of the sampling loops, called on their
\* own with every argument of a bounded set
Call(fn, value) == [fn |-> fn, value |-> value]

OnCall == UNCHANGED <<scope, relayVars, pageVars, audioVars>>

\* roomManager.sanitizeUsername(username)
CallSanitizeUsername ==
  /\ given.kind # "frame"
  /\ returned = NoCall
  /\ returned' = Call("sanitizeUsername", sanitizeUsername(given))
  /\ UNCHANGED given
  /\ OnCall

\* the name the relay stored is submitted again
Resubmit ==
  /\ returned # NoCall
  /\ returned.fn = "sanitizeUsername"
  /\ given' = Str(returned.value)
  /\ returned' = Call("sanitizeUsername", sanitizeUsername(given'))
  /\ given' # given
  /\ OnCall

\* roomManager.sanitizeMessage(message)
CallSanitizeMessage ==
  /\ given.kind # "frame"
  /\ returned = NoCall
  /\ returned' = Call("sanitizeMessage", sanitizeMessage(given))
  /\ UNCHANGED given
  /\ OnCall

\* the histories a sampling loop with the given historyLength can hold when
\* a frame comes: every short one, and flat ones one sample below the
\* length and at it, with a loud oldest sample or without
Flat(n, volume) == [i \in 1..n |-> volume]

Histories(historyLength) ==
  UNION {[1..n -> HistoryVolumes] : n \in 0..MaxHistory}
    \cup {Flat(n, volume) :
            n \in {historyLength - 1, historyLength}, volume \in {0, 6}}
    \cup {<<40>> \o Flat(n - 1, 0) :
            n \in {historyLength - 1, historyLength}}

\* one frame of a sampling loop: the loop's variables and the volume read
Frame(of, history, was, isMuted, volume) ==
  [kind |-> "frame", of |-> of, volumeHistory |-> history, was |-> was,
   isMuted |-> isMuted, volume |-> volume]

Frames ==
  {Frame("local", history, was, isMuted, volume) :
     history \in Histories(LocalHistoryLength), was \in BOOLEAN,
     isMuted \in BOOLEAN, volume \in FrameVolumes}
    \cup
  {Frame("remote", history, was, FALSE, volume) :
     history \in Histories(RemoteHistoryLength), was \in BOOLEAN,
     volume \in FrameVolumes}

IsFrame(of) == given.kind = "frame" /\ given.of = of

\* one run of checkLocalAudioLevel on a page with its stream
CallCheckLocalAudioLevel ==
  /\ IsFrame("local")
  /\ returned = NoCall
  /\ returned' =
       Call("checkLocalAudioLevel",
            checkLocalAudioLevel(
              [scheduled |-> TRUE, isLocalSpeaking |-> given.was,
               volumeHistory |-> given.volumeHistory],
              [NoPage EXCEPT !.localStream = TRUE,
                             !.isMuted = given.isMuted],
              given.volume))
  /\ UNCHANGED given
  /\ OnCall

\* one run of checkAudioLevel of detectSpeaking(socketId, stream)
CallCheckAudioLevel ==
  /\ IsFrame("remote")
  /\ returned = NoCall
  /\ returned' =
       Call("checkAudioLevel",
            checkAudioLevel(
              [Detector(2) EXCEPT !.scheduled = TRUE,
                                  !.isSpeaking = given.was,
                                  !.volumeHistory = given.volumeHistory],
              given.volume))
  /\ UNCHANGED given
  /\ OnCall

CallsInit ==
  /\ Started
  /\ given \in Texts \cup Frames
  /\ returned = NoCall

CallsNext ==
  \/ CallSanitizeUsername
  \/ Resubmit
  \/ CallSanitizeMessage
  \/ CallCheckLocalAudioLevel
  \/ CallCheckAudioLevel

Calls == CallsInit /\ [][CallsNext]_vars

\* ------------------------------------------------------------------ vocabulary
\* the participant set of a registered room
Members(rms, roomId) ==
  {rms[roomId].participants[i].socketId :
     i \in 1..Len(rms[roomId].participants)}

\* socket s is a participant of some registered room
IsParticipant(rms, s) == \E r \in DOMAIN rms : s \in Members(rms, r)

\* session states: Joined is a connected session that is a participant of
\* the room it recorded; a kicked session is connected, has recorded a room
\* and is no participant of it any more
Unjoined(s) == conn[s] = "open" /\ currentRoomId[s] = Null
Joined(s) ==
  /\ conn[s] = "open"
  /\ currentRoomId[s] # Null
  /\ currentRoomId[s] \in DOMAIN rooms
  /\ s \in Members(rooms, currentRoomId[s])
Kicked(s) ==
  /\ conn[s] = "open"
  /\ currentRoomId[s] # Null
  /\ ~(currentRoomId[s] \in DOMAIN rooms
       /\ s \in Members(rooms, currentRoomId[s]))

\* how many times a handler's output em delivers event ev to socket `to`
Count(em, to, ev) ==
  Cardinality({i \in 1..Len(em) : em[i].to = to /\ em[i].ev = ev})
\* ... with this argument
CountArg(em, to, ev, arg) ==
  Cardinality({i \in 1..Len(em) :
                 em[i].to = to /\ em[i].ev = ev /\ em[i].arg = arg})
\* the events a handler's output delivers to socket `to`
EventsTo(em, to) == {em[i].ev : i \in {j \in 1..Len(em) : em[j].to = to}}

JoinStep(s, roomId) ==
  \E in \in JoinInputs(s) : JoinRoom(s, roomId, in.username, in.peerId)

\* ------------------------------------------------------------------ C1
\* C1: at the end of every handler a room is in the registry only with a
\* non-empty participant set, and a room leaves the registry only in the
\* step in which its last participant is removed (by that participant's
\* disconnect).
C1_RegisteredNonEmpty == \A r \in DOMAIN rooms : Len(rooms[r].participants) > 0

C1_RemovedWhenEmptied ==
  \A r \in DOMAIN rooms :
    r \notin DOMAIN rooms' =>
      \E s \in ConnIds :
        /\ Members(rooms, r) = {s}
        /\ conn[s] = "open" /\ conn'[s] = "closed"

C1_RoomIffNonEmpty == []C1_RegisteredNonEmpty /\ [][C1_RemovedWhenEmptied]_vars

\* a room was removed when its last participant disconnected, while another
\* connection is still open
C1_Witness ==
  \E s \in ConnIds :
    /\ conn[s] = "closed"
    /\ currentRoomId[s] # Null
    /\ currentRoomId[s] \notin DOMAIN rooms
    /\ emitted = <<>>
    /\ \E o \in ConnIds : conn[o] = "open"

\* ------------------------------------------------------------------ C2
\* C2: a kick by a Joined session that is not the creator of its room, or
\* whose target is the caller itself, is rejected: exactly one error goes
\* to the caller, nothing goes to anyone else, and rooms, registry,
\* broadcast groups and session contexts are unchanged.
C2_Rejected(s, t) ==
  (/\ KickUser(s, t)
   /\ Joined(s)
   /\ (rooms[currentRoomId[s]].creator # s \/ t = s))
  => /\ Len(emitted') = 1
     /\ emitted'[1].to = s
     /\ emitted'[1].ev = "error"
     /\ UNCHANGED <<conn, currentRoomId, currentUsername, socketRooms, rooms>>

C2_UnauthorizedKickRejected ==
  [][\A s \in ConnIds, t \in Targets : C2_Rejected(s, t)]_vars

\* a Joined non-creator has just been refused, with two other members present
C2_Witness ==
  \E s \in ConnIds :
    /\ Joined(s)
    /\ rooms[currentRoomId[s]].creator # s
    /\ emitted = <<Msg(s, "error", ErrNotCreator)>>
    /\ Len(rooms[currentRoomId[s]].participants) = MaxConns

\* ------------------------------------------------------------------ C3
\* C3: a kick of participant T by the creator C of room R removes T from
\* R, delivers you-were-kicked to T, delivers user-kicked{T} once to each
\* member of R other than C and T and to nobody else (not to T), and takes
\* T out of R's broadcast group.
C3_Kick(s, t) ==
  (/\ KickUser(s, t)
   /\ Joined(s)
   /\ rooms[currentRoomId[s]].creator = s
   /\ t # s
   /\ t \in Members(rooms, currentRoomId[s]))
  => LET R == currentRoomId[s]
     IN  /\ t \notin Members(rooms', R)
         /\ Count(emitted', t, "you-were-kicked") = 1
         /\ \A m \in ConnIds :
              CountArg(emitted', m, "user-kicked", [socketId |-> t]) =
                IF m \in Members(rooms, R) \ {s, t} THEN 1 ELSE 0
         /\ R \notin socketRooms'[t]

C3_KickNotifiesOthersOnly ==
  [][\A s \in ConnIds, t \in ConnIds : C3_Kick(s, t)]_vars

\* ------------------------------------------------------------------ C4
\* C4: every operation a kicked session issues (send-message, toggle-mute,
\* kick-user, its disconnect) changes no room and delivers no
\* receive-message, user-muted, user-kicked or user-left to anyone.
RoomEvents == {"receive-message", "user-muted", "user-kicked", "user-left"}

C4_NoOp(s) ==
  (/\ Kicked(s)
   /\ \/ \E message \in RawMessages : SendMessage(s, message)
      \/ \E isMuted \in BOOLEAN : ToggleMute(s, isMuted)
      \/ \E t \in Targets : KickUser(s, t)
      \/ Disconnect(s))
  => /\ rooms' = rooms
     /\ \A c \in ConnIds : EventsTo(emitted', c) \cap RoomEvents = {}

C4_KickedSessionIsSilent == [][\A s \in ConnIds : C4_NoOp(s)]_vars

\* ------------------------------------------------------------------ C5
\* C5: a kicked session never becomes a participant again; a join it sends
\* adds no participant, creates no room and produces no room-joined or
\* user-joined.
C5_Terminal(s) ==
  Kicked(s) =>
    /\ currentRoomId[s] \in DOMAIN rooms' =>
         s \notin Members(rooms', currentRoomId[s])
    /\ \A r \in scope.rooms :
         JoinStep(s, r) =>
           /\ rooms' = rooms
           /\ \A c \in ConnIds :
                EventsTo(emitted', c) \cap {"room-joined", "user-joined"} = {}

C5_KickedNeverRejoins == [][\A s \in ConnIds : C5_Terminal(s)]_vars

\* ------------------------------------------------------------------ C6
\* C6: a join from a session that is already Joined is rejected: the caller
\* gets an error, no room-joined or user-joined is emitted, and registry,
\* rooms, session context and broadcast groups are unchanged.
C6_Rejected(s, r) ==
  (Joined(s) /\ JoinStep(s, r))
  => /\ Count(emitted', s, "error") = 1
     /\ \A c \in ConnIds :
          EventsTo(emitted', c) \cap {"room-joined", "user-joined"} = {}
     /\ UNCHANGED <<rooms, currentRoomId, currentUsername, socketRooms>>

C6_SecondJoinRejected ==
  [][\A s \in ConnIds, r \in RoomIds : C6_Rejected(s, r)]_vars

\* ------------------------------------------------------------------ C7
\* C7: the connection whose join registers a room becomes its creator and
\* is told isCreator = TRUE; a join to a registered room by any connection
\* other than its creator is told isCreator = FALSE and does not make it
\* the creator.
C7_Join(s, r) ==
  JoinStep(s, r) =>
    /\ Count(emitted', s, "room-joined") = 1
    /\ emitted'[1].to = s /\ emitted'[1].ev = "room-joined"
    /\ r \notin DOMAIN rooms =>
         rooms'[r].creator = s /\ emitted'[1].arg.isCreator = TRUE
    /\ (r \in DOMAIN rooms /\ rooms[r].creator # s) =>
         rooms'[r].creator # s /\ emitted'[1].arg.isCreator = FALSE

C7_FirstJoinerIsCreator ==
  [][\A s \in ConnIds, r \in RoomIds : C7_Join(s, r)]_vars

\* a later joiner has just been told it is not the creator, in a room the
\* creator is still a participant of
C7_Witness ==
  \E s \in ConnIds :
    /\ Joined(s)
    /\ Len(emitted) = 2
    /\ emitted[1].to = s /\ emitted[1].ev = "room-joined"
    /\ emitted[1].arg.isCreator = FALSE
    /\ rooms[currentRoomId[s]].creator \in Members(rooms, currentRoomId[s])

\* ------------------------------------------------------------------ C8
\* C8: while a room stays in the registry its creator never changes, also
\* when the creator itself disconnects.
C8_Step ==
  \A r \in DOMAIN rooms :
    r \in DOMAIN rooms' => rooms'[r].creator = rooms[r].creator

C8_CreatorNeverReassigned == [][C8_Step]_vars

\* a room whose creator has disconnected is still registered, with a
\* connected participant
C8_Witness ==
  \E r \in DOMAIN rooms :
    /\ conn[rooms[r].creator] = "closed"
    /\ rooms[r].creator \notin Members(rooms, r)
    /\ \E m \in Members(rooms, r) : conn[m] = "open"

\* ------------------------------------------------------------------ C9
\* C9: a join by an Unjoined connection J to room R adds J to R, records
\* (R, sanitized username) as J's context, sends J one room-joined whose
\* roster is R's participants other than J with their mute flags and whose
\* isCreator is J's creator status, and sends one user-joined{J, name,
\* peerId} to every other member of R and to nobody else.
OthersOf(rms, roomId, s) ==
  {rms[roomId].participants[i] :
     i \in {j \in 1..Len(rms[roomId].participants) :
              rms[roomId].participants[j].socketId # s}}

SeqRange(sq) == {sq[i] : i \in 1..Len(sq)}

C9_Join(s, r, in) ==
  (Unjoined(s) /\ JoinRoom(s, r, in.username, in.peerId))
  => LET name == sanitizeUsername(in.username)
         announce == [socketId |-> s, username |-> name, peerId |-> in.peerId]
     IN  /\ s \in Members(rooms', r)
         /\ currentRoomId'[s] = r
         /\ currentUsername'[s] = name
         /\ Count(emitted', s, "room-joined") = 1
         /\ emitted'[1].to = s /\ emitted'[1].ev = "room-joined"
         /\ SeqRange(emitted'[1].arg.participants) = OthersOf(rooms', r, s)
         /\ Len(emitted'[1].arg.participants) =
              Cardinality(OthersOf(rooms', r, s))
         /\ r \in DOMAIN rooms =>
              OthersOf(rooms', r, s) = OthersOf(rooms, r, s)
         /\ emitted'[1].arg.isCreator = (rooms'[r].creator = s)
         /\ \A m \in ConnIds :
              /\ Count(emitted', m, "user-joined") =
                   IF m \in Members(rooms', r) \ {s} THEN 1 ELSE 0
              /\ CountArg(emitted', m, "user-joined", announce) =
                   Count(emitted', m, "user-joined")

C9_JoinAnnounced ==
  [][\A s \in ConnIds, r \in RoomIds :
       \A in \in JoinInputs(s) : C9_Join(s, r, in)]_vars

\* ------------------------------------------------------------------ C10
\* C10: when a Joined session disconnects, its participant is removed from
\* its room, every remaining member of the room gets exactly one user-left
\* naming it, and the room leaves the registry iff no participant remains.
C10_Leave(s) ==
  (Joined(s) /\ Disconnect(s))
  => LET R == currentRoomId[s]
         remaining == Members(rooms, R) \ {s}
     IN  /\ R \in DOMAIN rooms' => Members(rooms', R) = remaining
         /\ \A m \in remaining :
              CountArg(emitted', m, "user-left", [socketId |-> s]) = 1
         /\ (R \notin DOMAIN rooms') <=> (remaining = {})

C10_DisconnectNotifiesRoom == [][\A s \in ConnIds : C10_Leave(s)]_vars

\* ------------------------------------------------------------------ C11
\* C11: a join to room R by a connection that is not a participant of R
\* makes R's participant list one longer (so N joins by N distinct
\* connections give length N, each participant listed once); the removal of
\* a present participant, by its disconnect or by the creator's kick, makes
\* the list exactly one shorter, and R leaves the registry in that step iff
\* the list became empty.
ListLen(rms, r) == IF r \in DOMAIN rms THEN Len(rms[r].participants) ELSE 0

C11_ListedOnce ==
  \A r \in DOMAIN rooms :
    Cardinality(Members(rooms, r)) = Len(rooms[r].participants)

C11_Removed(r) ==
  /\ ListLen(rooms', r) = ListLen(rooms, r) - 1
  /\ (r \notin DOMAIN rooms') <=> (ListLen(rooms, r) - 1 = 0)

C11_Step ==
  \A s \in ConnIds :
    /\ \A r \in RoomIds :
         (JoinStep(s, r) /\ ~(r \in DOMAIN rooms /\ s \in Members(rooms, r)))
         => /\ ListLen(rooms', r) = ListLen(rooms, r) + 1
            /\ Len(getParticipantsList(rooms'[r])) = ListLen(rooms, r) + 1
    /\ (Disconnect(s) /\ Joined(s)) => C11_Removed(currentRoomId[s])
    /\ \A t \in ConnIds :
         (/\ KickUser(s, t)
          /\ Joined(s)
          /\ rooms[currentRoomId[s]].creator = s
          /\ t # s
          /\ t \in Members(rooms, currentRoomId[s]))
         => C11_Removed(currentRoomId[s])

C11_LengthCountsParticipants == []C11_ListedOnce /\ [][C11_Step]_vars

\* a room every connection joined has lost one participant by a kick
C11_Witness ==
  \E r \in DOMAIN rooms, t \in ConnIds :
    /\ Len(rooms[r].participants) = MaxConns - 1
    /\ currentRoomId[t] = r
    /\ t \notin Members(rooms, r)
    /\ \E i \in 1..Len(emitted) :
         emitted[i].ev = "user-kicked" /\ emitted[i].arg = [socketId |-> t]

\* ------------------------------------------------------------------ C13
\* C13: an offer, answer or ice candidate sent by an Unjoined session (one
\* that never completed a join) is delivered to no connection.
C13_Dropped(s) ==
  (/\ Unjoined(s)
   /\ \E ev \in SignalEvents, to \in Targets, payload \in Payloads :
        Signal(s, ev, to, payload))
  => emitted' = <<>>

C13_SignalsOnlyWhileJoined == [][\A s \in ConnIds : C13_Dropped(s)]_vars

\* ------------------------------------------------------------------ C14
\* C14: a relayed offer, answer or ice candidate is delivered to exactly one
\* connection, the one whose id is the `to` the sender gave, with the
\* payload unchanged and `from` the id of the sending socket, and relaying
\* changes no room, registry, broadcast group or session context.
C14_Relayed(s, ev, to, payload) ==
  (Signal(s, ev, to, payload) /\ emitted' # <<>>)
  => /\ emitted' = <<Msg(to, ev, [from |-> s, payload |-> payload])>>
     /\ UNCHANGED <<conn, currentRoomId, currentUsername, socketRooms, rooms>>

C14_RelayedToTargetOnly ==
  [][\A s \in ConnIds, ev \in SignalEvents, to \in Targets,
        payload \in Payloads : C14_Relayed(s, ev, to, payload)]_vars

\* ------------------------------------------------------------------ C15
\* C15: an offer, answer or ice candidate whose `to` is not the id of a
\* connected socket is dropped silently: nothing is delivered to anyone (no
\* error to the sender either) and no state changes.
C15_Dropped(s, ev, to, payload) ==
  (/\ Signal(s, ev, to, payload)
   /\ ~(to \in ConnIds /\ conn[to] = "open"))
  => /\ emitted' = <<>>
     /\ UNCHANGED <<conn, currentRoomId, currentUsername, socketRooms, rooms>>

C15_RoutingMissDropped ==
  [][\A s \in ConnIds, ev \in SignalEvents, to \in Targets,
        payload \in Payloads : C15_Dropped(s, ev, to, payload)]_vars

\* ------------------------------------------------------------------ C16
\* C16: send-message from a Joined session whose sanitized text is not
\* empty delivers exactly one receive-message to every participant of the
\* sender's room, the sender included, and none to anyone else; it carries
\* the sender's id, the username recorded at its join and the sanitized
\* text.  With an empty sanitized text, or from an Unjoined session,
\* nothing is delivered.
C16_Chat(s, message) ==
  SendMessage(s, message) =>
    LET text == sanitizeMessage(message)
        R == currentRoomId[s]
    IN  /\ (Joined(s) /\ text # <<>>) =>
             \A m \in ConnIds :
               /\ Count(emitted', m, "receive-message") =
                    IF m \in Members(rooms, R) THEN 1 ELSE 0
               /\ CountArg(emitted', m, "receive-message",
                           [username |->
                              rooms[R].participants[
                                IndexOf(rooms[R].participants, s)].username,
                            message |-> text, socketId |-> s]) =
                    Count(emitted', m, "receive-message")
        /\ (Unjoined(s) \/ (Joined(s) /\ text = <<>>)) => emitted' = <<>>

C16_ChatReachesRoomOnly ==
  [][\A s \in ConnIds, message \in RawMessages : C16_Chat(s, message)]_vars

\* ------------------------------------------------------------------ C17
\* C17: toggle-mute(flag) from a Joined participant P sets P's own mute
\* flag in its room to flag and changes nothing else; user-muted{P, flag}
\* goes once to every other participant of P's room and to nobody else (not
\* to P); and no handler run for one connection changes the mute flag of
\* another connection's participant.
MuteOf(rms, r, p) ==
  rms[r].participants[IndexOf(rms[r].participants, p)].isMuted

C17_Toggle(s, flag) ==
  (Joined(s) /\ ToggleMute(s, flag))
  => LET R == currentRoomId[s]
         i == IndexOf(rooms[R].participants, s)
     IN  /\ rooms' = [rooms EXCEPT ![R].participants[i].isMuted = flag]
         /\ UNCHANGED <<conn, currentRoomId, currentUsername, socketRooms>>
         /\ \A m \in ConnIds :
              /\ Count(emitted', m, "user-muted") =
                   IF m \in Members(rooms, R) \ {s} THEN 1 ELSE 0
              /\ CountArg(emitted', m, "user-muted",
                          [socketId |-> s, isMuted |-> flag]) =
                   Count(emitted', m, "user-muted")

\* the handler of this step runs for connection s
ActsFor(s) ==
  \/ conn'[s] # conn[s]
  \/ \E r \in scope.rooms : JoinStep(s, r)
  \/ \E ev \in SignalEvents, to \in Targets, payload \in Payloads :
       Signal(s, ev, to, payload)
  \/ \E message \in RawMessages : SendMessage(s, message)
  \/ \E flag \in BOOLEAN : ToggleMute(s, flag)
  \/ \E t \in Targets : KickUser(s, t)

C17_OwnFlagOnly(s) ==
  ActsFor(s) =>
    \A r \in DOMAIN rooms, p \in ConnIds \ {s} :
      (p \in Members(rooms, r) /\ r \in DOMAIN rooms' /\ p \in Members(rooms', r))
      => MuteOf(rooms', r, p) = MuteOf(rooms, r, p)

C17_MuteIsOwn ==
  [][\A s \in ConnIds :
       /\ \A flag \in BOOLEAN : C17_Toggle(s, flag)
       /\ C17_OwnFlagOnly(s)]_vars

\* ------------------------------------------------------------------ C18
\* C18: a kick by the creator of a room whose target is not a participant
\* of that room is dropped silently: no you-were-kicked and no user-kicked
\* is delivered to anyone, and no participant set and no broadcast group
\* changes.
C18_Dropped(s, t) ==
  (/\ KickUser(s, t)
   /\ Joined(s)
   /\ rooms[currentRoomId[s]].creator = s
   /\ t # s
   /\ t \notin Members(rooms, currentRoomId[s]))
  => /\ \A c \in ConnIds :
          EventsTo(emitted', c) \cap {"you-were-kicked", "user-kicked"} = {}
     /\ UNCHANGED <<rooms, socketRooms>>

C18_KickOfAbsentTargetDropped ==
  [][\A s \in ConnIds, t \in Targets : C18_Dropped(s, t)]_vars

\* ------------------------------------------------------------------ C12
\* C12: whenever every message the relay has sent has been handled by its
\* page, the participant list of the page of every participant of a room
\* holds exactly the other participants of that room.
Quiet == \A c \in ConnIds : inbox[c] = <<>>

C12_PagesAgreeWithRelay ==
  Quiet =>
    \A c \in ConnIds :
      Joined(c) =>
        DOMAIN participants[c] = Members(rooms, currentRoomId[c]) \ {c}

\* ------------------------------------------------------------------ C19
\* C19: a page never has more than one live SimplePeer for a remote id, and
\* the live ones are those in its peers Map; a handler that calls
\* createPeerConnection for an id that is already in the Map (room-joined
\* for a listed participant, an incoming offer) makes no SimplePeer and
\* leaves the existing link, its role included, as it was.
C19_AtMostOne ==
  \A c \in ConnIds, r \in Names :
    /\ simplePeers[c][r] <= 1
    /\ simplePeers[c][r] = 1 <=> r \in DOMAIN peers[c]

C19_NoOp(c) ==
  (OnRoomJoined(c) \/ OnWebrtcOffer(c)) =>
    \A r \in DOMAIN peers[c] :
      /\ r \in DOMAIN peers'[c]
      /\ peers'[c][r] = peers[c][r]
      /\ simplePeers'[c][r] = simplePeers[c][r]

C19_OneLinkPerIdentity ==
  []C19_AtMostOne /\ [][\A c \in ConnIds : C19_NoOp(c)]_vars

\* page c was told by room-joined to call r, which joined before it, and
\* its link to r is still the responder link an earlier offer of r made
C19_Witness ==
  \E c \in ConnIds, r \in ConnIds :
    /\ Joined(c) /\ Joined(r)
    /\ currentRoomId[c] = currentRoomId[r]
    /\ IndexOf(rooms[currentRoomId[c]].participants, r) <
         IndexOf(rooms[currentRoomId[c]].participants, c)
    /\ r \in DOMAIN participants[c]
    /\ r \in DOMAIN peers[c]
    /\ ~peers[c][r].initiator

\* ------------------------------------------------------------------ C20
\* C20: a page makes an initiator link only while it handles its own
\* room-joined, toward a participant of that roster; handling user-joined
\* makes, removes and changes no link; a responder link is made only by
\* handling an offer of that remote.  So the two ends of a pair are never
\* both initiators, a peer sends its offer only to a participant that
\* joined the room before its own page did, and when nobody sends by hand
\* every offer in flight between two participants of a room goes from the
\* later joiner to the earlier one.
JoinedBefore(r, c) ==
  /\ Joined(r) /\ Joined(c)
  /\ currentRoomId[r] = currentRoomId[c]
  /\ IndexOf(rooms[currentRoomId[c]].participants, r) <
       IndexOf(rooms[currentRoomId[c]].participants, c)

SameRoom(a, b) ==
  Joined(a) /\ Joined(b) /\ currentRoomId[a] = currentRoomId[b]

C20_LinkMade(c) ==
  \A r \in Names :
    (r \notin DOMAIN peers[c] /\ r \in DOMAIN peers'[c]) =>
      IF peers'[c][r].initiator
      THEN /\ OnRoomJoined(c)
           /\ \E i \in 1..Len(Head(inbox[c]).arg.participants) :
                Head(inbox[c]).arg.participants[i].socketId = r
      ELSE OnWebrtcOffer(c) /\ Head(inbox[c]).arg.from = r

C20_Step ==
  \A c \in ConnIds :
    /\ C20_LinkMade(c)
    /\ OnUserJoined(c) => UNCHANGED <<peers, simplePeers>>
    /\ \A r \in ConnIds :
         (PeerSignal(c, r, "webrtc-offer") /\ SameRoom(c, r))
         => JoinedBefore(r, c)

C20_OneInitiator ==
  \A a \in ConnIds, b \in ConnIds :
    /\ ~(/\ b \in DOMAIN peers[a] /\ peers[a][b].initiator
         /\ a \in DOMAIN peers[b] /\ peers[b][a].initiator)
    /\ (scope.byHand = {} /\ SameRoom(a, b)) =>
         \A i \in 1..Len(inbox[b]) :
           (inbox[b][i].ev = "webrtc-offer" /\ inbox[b][i].arg.from = a)
           => JoinedBefore(b, a)

C20_InitiatorIsNewcomer == []C20_OneInitiator /\ [][C20_Step]_vars

\* with nobody sending by hand, the later joiner of a pair holds the
\* initiator link and the earlier one a responder link its offer made
C20_Witness ==
  \E a \in ConnIds, b \in ConnIds :
    /\ scope.byHand = {}
    /\ JoinedBefore(b, a)
    /\ b \in DOMAIN peers[a] /\ peers[a][b].initiator
    /\ a \in DOMAIN peers[b] /\ ~peers[b][a].initiator
    /\ "webrtc-offer" \in peers[b][a].applied

\* ------------------------------------------------------------------ C22
\* C22: when a page handles an offer whose sender it already has a link
\* to, its links stay as they were: the offer is not applied to that link,
\* the link keeps its role and what it has applied, no answer is queued
\* for sending, no SimplePeer is made, and nothing reaches the relay.
C22_OfferFromLinked(c) ==
  /\ OnWebrtcOffer(c)
  /\ Head(inbox[c]).arg.from \in DOMAIN peers[c]

C22_DuplicateOfferIgnored ==
  [][\A c \in ConnIds :
       C22_OfferFromLinked(c) =>
         /\ peers'[c] = peers[c]
         /\ simplePeers'[c] = simplePeers[c]
         /\ \A d \in ConnIds \ {c} : inbox'[d] = inbox[d]
         /\ UNCHANGED relayVars]_vars

\* the relay's last message was an offer of r to page c, the page has
\* handled it, and its link to r is still the initiator link that has
\* applied no offer
C22_Witness ==
  \E c \in ConnIds, r \in ConnIds :
    /\ Len(emitted) = 1
    /\ emitted[1].to = c
    /\ emitted[1].ev = "webrtc-offer"
    /\ emitted[1].arg.from = r
    /\ inbox[c] = <<>>
    /\ r \in DOMAIN peers[c]
    /\ peers[c][r].initiator
    /\ "webrtc-offer" \notin peers[c][r].applied

\* ------------------------------------------------------------------ C23
\* C23: when a page handles an answer or an ICE candidate, it makes and
\* removes no link and no SimplePeer, sends nothing, and leaves every link
\* other than the sender's as it was; the sender's link, if the page has
\* one, gets the message applied and keeps its role; if the page has none
\* the message is dropped and the page's links are unchanged.
C23_Handles(c, ev) ==
  \/ ev = "webrtc-answer" /\ OnWebrtcAnswer(c)
  \/ ev = "ice-candidate" /\ OnIceCandidate(c)

C23_Routed(c, ev) ==
  LET from == Head(inbox[c]).arg.from
  IN  /\ DOMAIN peers'[c] = DOMAIN peers[c]
      /\ simplePeers'[c] = simplePeers[c]
      /\ \A k \in DOMAIN peers[c] \ {from} : peers'[c][k] = peers[c][k]
      /\ from \in DOMAIN peers[c] =>
           /\ peers'[c][from].applied = peers[c][from].applied \cup {ev}
           /\ peers'[c][from].initiator = peers[c][from].initiator
           /\ peers'[c][from].toSend = peers[c][from].toSend
      /\ from \notin DOMAIN peers[c] => peers'[c] = peers[c]
      /\ \A d \in ConnIds \ {c} :
           /\ inbox'[d] = inbox[d]
           /\ peers'[d] = peers[d]
      /\ UNCHANGED relayVars

C23_AnswerAndCandidateRouting ==
  [][\A c \in ConnIds, ev \in {"webrtc-answer", "ice-candidate"} :
       C23_Handles(c, ev) => C23_Routed(c, ev)]_vars

\* the relay's last message was an answer or a candidate of r to page c,
\* the page has handled it, and it has no link to r
C23_Witness ==
  \E c \in ConnIds, r \in ConnIds :
    /\ Len(emitted) = 1
    /\ emitted[1].to = c
    /\ emitted[1].ev \in {"webrtc-answer", "ice-candidate"}
    /\ emitted[1].arg.from = r
    /\ inbox[c] = <<>>
    /\ conn[c] = "open"
    /\ r \notin DOMAIN peers[c]

\* ------------------------------------------------------------------ C24
\* C24: a candidate that a page handles while the offer of the same sender
\* is still waiting behind it is retained: after the handler the page has
\* a link to the sender that holds the candidate, to be applied with the
\* offer.
C24_OfferBehind(c) ==
  /\ OnIceCandidate(c)
  /\ \E i \in 2..Len(inbox[c]) :
       /\ inbox[c][i].ev = "webrtc-offer"
       /\ inbox[c][i].arg.from = Head(inbox[c]).arg.from

C25_Removes(c) == OnUserLeft(c) \/ OnUserKicked(c) \/ OnYouWereKicked(c)

C26_Fault(r) == PeerError(r) \/ PeerClose(r)

C26_FaultIsolation ==
  [][\A r \in ConnIds :
       C26_Fault(r) =>
         /\ DOMAIN peers'[AudioPage] = DOMAIN peers[AudioPage] \ {r}
         /\ \A k \in DOMAIN peers[AudioPage] \ {r} :
              /\ peers'[AudioPage][k] = peers[AudioPage][k]
              /\ simplePeers'[AudioPage][k] = simplePeers[AudioPage][k]
         /\ UNCHANGED <<localStream, localMuted, participants>>
         /\ UNCHANGED <<relayVars, inbox>>]_vars

\* the link to r, whose stream the page was sampling, was torn down and
\* reported, and the page still has its local stream and a link to
\* another remote
C26_Witness ==
  \E r \in ConnIds, k \in ConnIds :
    /\ peerDisconnected[r] = 1
    /\ r \notin DOMAIN peers[AudioPage]
    /\ \E i \in DOMAIN detectors :
         detectors[i].socketId = r /\ ~detectors[i].live
    /\ k \in DOMAIN peers[AudioPage]
    /\ simplePeers[AudioPage][k] = 1
    /\ localStream[AudioPage]

\* ------------------------------------------------------------------ C27
\* C27: when nobody sends by hand and every message of the relay has been
\* handled, a participant of a room has no link to a socket that left that
\* room, by disconnecting or by being kicked; the creator that sent the
\* kick included.
C27_LeftRoomOf(t, c) ==
  /\ currentRoomId[t] = currentRoomId[c]
  /\ conn[t] = "closed" \/ Kicked(t)

C27_NoLinkToDeparted ==
  \A c \in ConnIds, t \in ConnIds :
    (scope.byHand = {} /\ Quiet /\ Joined(c) /\ C27_LeftRoomOf(t, c))
    => t \notin DOMAIN peers[c]

\* ------------------------------------------------------------------ C28
\* C28: a sampling loop, local or remote, calls the speaking callback
\* exactly on the runs that change its flag, with the new value of the
\* flag; a run that leaves the flag as it was calls nothing.  A flag is
\* false before the loop's first call.  So the values a loop reports
\* alternate, and the first one is true.
C28_FlagBefore(i) ==
  IF i \in DOMAIN detectors THEN detectors[i].isSpeaking ELSE FALSE

C28_Changed ==
  {i \in DOMAIN detectors' : detectors'[i].isSpeaking # C28_FlagBefore(i)}

C28_LocalChanged == monitor'.isLocalSpeaking # monitor.isLocalSpeaking

C28_Step ==
  /\ Len(speaking') =
       Cardinality(C28_Changed) + (IF C28_LocalChanged THEN 1 ELSE 0)
  /\ \A k \in DOMAIN speaking' :
       \/ /\ speaking'[k].id = Local
          /\ C28_LocalChanged
          /\ speaking'[k].isSpeaking = monitor'.isLocalSpeaking
       \/ \E i \in C28_Changed :
            /\ speaking'[k].id = detectors'[i].socketId
            /\ speaking'[k].isSpeaking = detectors'[i].isSpeaking

C28_FalseAtStart ==
  /\ monitor.volumeHistory = <<>> => ~monitor.isLocalSpeaking
  /\ \A i \in DOMAIN detectors :
       Len(detectors[i].volumeHistory) <= 1 => ~detectors[i].isSpeaking

C28_EventsOnlyOnTransition == []C28_FalseAtStart /\ [][C28_Step]_vars

\* a loop that reported true before has just reported false: the local
\* one, on its third sample or later
C28_Witness ==
  /\ speaking = <<Speaking(Local, FALSE)>>
  /\ ~monitor.isLocalSpeaking
  /\ Len(monitor.volumeHistory) >= 3
  /\ ~localMuted[AudioPage]

\* ------------------------------------------------------------------ C29
\* C29: a run of the local loop that samples while the page is muted
\* leaves the local flag false, whatever the volume; it reports false,
\* once, when the flag was true, and nothing otherwise; and no step taken
\* while the page is muted reports the local source as speaking.
C29_MutedSample ==
  /\ localMuted[AudioPage]
  /\ localStream[AudioPage]
  /\ \E volume \in Volumes : LocalTick(volume)

C29_Step ==
  /\ C29_MutedSample =>
       /\ ~monitor'.isLocalSpeaking
       /\ speaking' = IF monitor.isLocalSpeaking
                      THEN <<Speaking(Local, FALSE)>>
                      ELSE <<>>
  /\ localMuted[AudioPage] =>
       \A k \in DOMAIN speaking' : speaking'[k] # Speaking(Local, TRUE)

C29_MutedIsSilent == [][C29_Step]_vars

\* the muted page's loop has just reported false on a sample that is above
\* the threshold
C29_Witness ==
  /\ localMuted[AudioPage]
  /\ speaking = <<Speaking(Local, FALSE)>>
  /\ monitor.volumeHistory # <<>>
  /\ aboveThreshold(monitor.volumeHistory,
                    monitor.volumeHistory[Len(monitor.volumeHistory)])

\* ------------------------------------------------------------------ C30
\* C30: a sampling loop ends with its stream: the loop of a remote whose
\* link was removed has no further run scheduled and reports nothing more
\* for that remote, and after cleanup() nothing more is reported for the
\* local source.
C30_LoopEndsWithStream ==
  \A i \in DOMAIN detectors : ~detectors[i].live => ~detectors[i].scheduled

C30_Step ==
  \A k \in DOMAIN speaking' :
    IF speaking'[k].id = Local
    THEN localStream'[AudioPage]
    ELSE speaking'[k].id \in DOMAIN peers[AudioPage]

C30_DetectorDestroyedWithStream ==
  []C30_LoopEndsWithStream /\ [][C30_Step]_vars

\* ------------------------------------------------------------------ C21
\* C21: when the pages join and stay, every two participants of a room get
\* linked: the later joiner holds one initiator link, the earlier one
\* holds one responder link, the offer has been applied at the earlier one
\* and the answer at the later one, nothing is left to send, and it stays
\* so.  A link, once made, stays, keeps its role and sends at most the one
\* message it was made to send: the offer of an initiator, the answer of a
\* responder.  A page never holds two SimplePeers for one remote, and the
\* two ends of a pair are never both initiators.
C21_Established(a, b) ==
  /\ JoinedBefore(b, a)
  /\ b \in DOMAIN peers[a] /\ a \in DOMAIN peers[b]
  /\ simplePeers[a][b] = 1 /\ simplePeers[b][a] = 1
  /\ peers[a][b] =
       [initiator |-> TRUE, toSend |-> {}, applied |-> {"webrtc-answer"}]
  /\ peers[b][a] =
       [initiator |-> FALSE, toSend |-> {}, applied |-> {"webrtc-offer"}]

C21_Step ==
  \A c \in ConnIds, r \in Names :
    /\ r \in DOMAIN peers[c] =>
         /\ r \in DOMAIN peers'[c]
         /\ peers'[c][r].initiator = peers[c][r].initiator
         /\ peers'[c][r].toSend \subseteq peers[c][r].toSend
    /\ (r \notin DOMAIN peers[c] /\ r \in DOMAIN peers'[c]) =>
         peers'[c][r].toSend = IF peers'[c][r].initiator
                               THEN {"webrtc-offer"}
                               ELSE {"webrtc-answer"}

C21_OnePerPair ==
  \A a \in ConnIds, b \in Names :
    /\ simplePeers[a][b] <= 1
    /\ b \in DOMAIN peers[a] =>
         /\ b \in ConnIds /\ SameRoom(a, b)
         /\ peers[a][b].initiator <=> JoinedBefore(b, a)

C21_FullMesh ==
  /\ []C21_OnePerPair
  /\ [][C21_Step]_vars
  /\ \A a \in ConnIds, b \in ConnIds :
       JoinedBefore(b, a) ~> []C21_Established(a, b)

\* every connection is in one room and every pair of them is linked
C21_Witness ==
  \A a \in ConnIds :
    \A b \in ConnIds \ {a} :
      /\ SameRoom(a, b)
      /\ C21_Established(a, b) \/ C21_Established(b, a)

\* ------------------------------------------------------------------ C31
\* C31: whatever it is called with, sanitizeUsername returns a text of at
\* most 50 characters, all of them letters, digits, whitespace, hyphen,
\* underscore or period; and it returns Anonymous when the argument is
\* absent, not a string, or has no allowed character left between its
\* leading and trailing whitespace.
C31_EmptyWhenCleaned(text) ==
  \/ text.kind # "string"
  \/ \A i \in 1..Len(text.chars) :
       \/ text.chars[i] \notin AllowedChars
       \/ /\ text.chars[i] \in Whitespace
          /\ \/ \A j \in 1..i : text.chars[j] \in Whitespace
             \/ \A j \in i..Len(text.chars) : text.chars[j] \in Whitespace

C31_UsernameContract ==
  (returned # NoCall /\ returned.fn = "sanitizeUsername") =>
    /\ Len(returned.value) <= 50
    /\ \A i \in 1..Len(returned.value) :
         returned.value[i] \in AllowedChars
    /\ C31_EmptyWhenCleaned(given) =>
         returned.value = <<"A", "n", "o", "n", "y", "m", "o", "u", "s">>

\* a text of more than 51 characters was cut to a name of 50
C31_Witness ==
  /\ returned # NoCall
  /\ returned.fn = "sanitizeUsername"
  /\ given.kind = "string"
  /\ Len(given.chars) > 51
  /\ Len(returned.value) = 50

\* ------------------------------------------------------------------ C32
\* C32: sanitizeMessage returns the empty text for an absent or non-string
\* argument, and otherwise the argument without its leading and trailing
\* whitespace, cut to its first 1000 characters: never longer than 1000,
\* and character by character the start of the trimmed argument.
C32_Lead(cs) ==
  Cardinality({i \in 1..Len(cs) : \A j \in 1..i : cs[j] \in Whitespace})

C32_Last(cs) ==
  IF \A i \in 1..Len(cs) : cs[i] \in Whitespace
  THEN C32_Lead(cs)
  ELSE CHOOSE i \in 1..Len(cs) :
         /\ cs[i] \notin Whitespace
         /\ \A j \in (i + 1)..Len(cs) : cs[j] \in Whitespace

C32_MessageContract ==
  (returned # NoCall /\ returned.fn = "sanitizeMessage") =>
    /\ Len(returned.value) <= 1000
    /\ given.kind # "string" => returned.value = <<>>
    /\ given.kind = "string" =>
         LET lead == C32_Lead(given.chars)
             rest == C32_Last(given.chars) - lead
         IN  /\ Len(returned.value) = IF rest <= 1000 THEN rest ELSE 1000
             /\ \A i \in 1..Len(returned.value) :
                  returned.value[i] = given.chars[lead + i]

\* a message with a leading blank and more than 1000 characters behind it
\* came back as those characters up to the 1000th
C32_Witness ==
  /\ returned # NoCall
  /\ returned.fn = "sanitizeMessage"
  /\ given.kind = "string"
  /\ Len(given.chars) > 1001
  /\ Head(given.chars) \in Whitespace
  /\ Len(returned.value) = 1000

\* ------------------------------------------------------------------ C40
\* C40: sanitizeUsername is idempotent: submitting a name it returned gives
\* that same name back.
C40_Idempotent ==
  [][Resubmit => returned'.value = returned.value]_vars

\* ------------------------------------------------------------------ C35
\* C35: on every frame a sampling loop appends the volume it read to its
\* history and keeps the most recent samples only, at most 100 for the local
\* stream and at most 50 for a remote one; and its decision for that frame
\* is true exactly when the volume is greater than 5 and greater than one
\* and a half times the average of the history with that volume in it (for
\* the local stream: and the page is not muted).
C35_Kept(old, volume, new, historyLength) ==
  LET all == old \o <<volume>>
      drop == Len(all) - Len(new)
  IN  /\ Len(new) = IF Len(all) <= historyLength THEN Len(all)
                    ELSE historyLength
      /\ \A i \in 1..Len(new) : new[i] = all[drop + i]

C35_Raw(history, volume) ==
  /\ volume > 5
  /\ 2 * volume * Len(history) > 3 * Sum(history)

C35_Threshold ==
  /\ (returned # NoCall /\ returned.fn = "checkLocalAudioLevel") =>
       LET new == returned.value.monitor
       IN  /\ C35_Kept(given.volumeHistory, given.volume,
                       new.volumeHistory, 100)
           /\ new.isLocalSpeaking <=>
                (C35_Raw(new.volumeHistory, given.volume) /\ ~given.isMuted)
  /\ (returned # NoCall /\ returned.fn = "checkAudioLevel") =>
       LET new == returned.value.detector
       IN  /\ C35_Kept(given.volumeHistory, given.volume,
                       new.volumeHistory, 50)
           /\ new.isSpeaking <=> C35_Raw(new.volumeHistory, given.volume)

\* a remote loop whose history was full dropped its oldest sample, a loud
\* one, and took the frame of volume 6 for speech
C35_Witness ==
  /\ returned # NoCall
  /\ returned.fn = "checkAudioLevel"
  /\ Len(given.volumeHistory) = 50
  /\ Head(given.volumeHistory) = 40
  /\ given.volume = 6
  /\ returned.value.detector.isSpeaking
  /\ Len(returned.value.detector.volumeHistory) = 50

\* ------------------------------------------------------------------ C33
\* C33: when a handler of the relay fails on what a client sent, such as a
\* missing payload, the failure is caught: the sending client is sent one
\* error event, and no connection, closure variable or room changes.
C33_FailuresCaught ==
  [][\A s \in ConnIds, ev \in PayloadEvents :
       MissingPayload(s, ev) =>
         /\ Count(emitted', s, "error") = 1
         /\ UNCHANGED <<conn, currentRoomId, currentUsername, rooms>>]_vars

\* ------------------------------------------------------------------ C34
\* C34: the creator's privileges go with the creator. When the creator of
\* a room disconnects while others remain, the room stays registered with
\* the remaining participants; a registered room never changes its
\* creator; and while the creator of a registered room is disconnected,
\* every kick sent by a connection whose current room it is gets the
\* authorization error as its only answer and changes no room.
C34_CreatorGone(roomId) ==
  /\ roomId \in DOMAIN rooms
  /\ conn[rooms[roomId].creator] = "closed"

C34_Orphaned ==
  [][\A roomId \in RoomIds :
       /\ \A s \in ConnIds :
            (/\ Disconnect(s)
             /\ roomId \in DOMAIN rooms
             /\ currentRoomId[s] = roomId
             /\ rooms[roomId].creator = s
             /\ Members(rooms, roomId) \ {s} # {})
            => /\ roomId \in DOMAIN rooms'
               /\ Members(rooms', roomId) = Members(rooms, roomId) \ {s}
       /\ (roomId \in DOMAIN rooms /\ roomId \in DOMAIN rooms')
            => rooms'[roomId].creator = rooms[roomId].creator
       /\ \A s \in ConnIds, targetSocketId \in Targets :
            (/\ KickUser(s, targetSocketId)
             /\ currentRoomId[s] = roomId
             /\ C34_CreatorGone(roomId))
            => /\ Len(emitted') = 1
               /\ CountArg(emitted', s, "error",
                           [message |-> "Only the room creator can kick users"]) = 1
               /\ rooms' = rooms]_vars

\* the creator of a room has disconnected, two participants remain, and
\* one of them has just been refused a kick
C34_Witness ==
  \E roomId \in RoomIds :
    /\ C34_CreatorGone(roomId)
    /\ Cardinality(Members(rooms, roomId)) = 2
    /\ \E s \in Members(rooms, roomId) :
         /\ conn[s] = "open"
         /\ currentRoomId[s] = roomId
         /\ CountArg(emitted, s, "error",
                     [message |-> "Only the room creator can kick users"]) = 1

\* ------------------------------------------------------------------ C37
\* C37: no ghost participants: every participant entry of every registered
\* room is the entry of a socket that is connected, no socket has an entry
\* in two rooms, and when no socket is connected no room is registered.
C37_NoGhosts ==
  /\ \A roomId \in DOMAIN rooms :
       \A s \in Members(rooms, roomId) : conn[s] = "open"
  /\ \A s \in ConnIds :
       Cardinality({roomId \in DOMAIN rooms : s \in Members(rooms, roomId)}) <= 1
  /\ (\A s \in ConnIds : conn[s] # "open") => DOMAIN rooms = {}

\* ------------------------------------------------------------------ C36
\* C36: every link a page holds is a link to a participant of the page's
\* roster: a page makes no link on an offer of a socket it does not know as
\* a participant of its room.
C36_LinksWithinRoster ==
  \A c \in ConnIds \ scope.byHand :
    DOMAIN peers[c] \subseteq DOMAIN participants[c]

\* ------------------------------------------------------------------ C39
\* C39: when a page has run cleanup(), as it does on you-were-kicked, it
\* holds no link and no local stream, and from a page without its stream the
\* local sampling loop reports no speaking event; cleanup() on a page that
\* holds no link and no stream changes nothing of the page, calls no
\* callback and reports nothing.
C39_Clean ==
  /\ DOMAIN peers[AudioPage] = {}
  /\ ~localStream[AudioPage]

C39_CleanupOnce ==
  [][/\ AudioCleanup =>
          /\ C39_Clean'
          /\ C39_Clean =>
               /\ appVars' = appVars
               /\ \A r \in Names : peerDisconnected'[r] = 0
               /\ speaking' = <<>>
     /\ (monitor # NoMonitor /\ ~localStream[AudioPage]) =>
          \A i \in 1..Len(speaking') : speaking'[i].id # Local]_vars

\* cleanup() has just removed the page's link to a remote and released the
\* stream, while the local loop held samples and a remote loop was running
C39_Witness ==
  /\ C39_Clean
  /\ \E r \in ConnIds \ {AudioPage} : peerDisconnected[r] = 1
  /\ monitor.volumeHistory # <<>>
  /\ detectors # <<>>

\* ------------------------------------------------------------------ C38
\* C38: the mute flags converge: when every message of the relay has been
\* handled, the page of every participant M of a room shows, for every
\* other participant P of the room it lists, the mute flag the relay holds
\* for P, however P's toggles fell around M's join.
C38_MuteConverges ==
  Quiet =>
    \A roomId \in DOMAIN rooms :
      \A m \in Members(rooms, roomId) :
        \A p \in (Members(rooms, roomId) \ {m}) \cap DOMAIN participants[m] :
          participants[m][p].isMuted =
            rooms[roomId].participants[
              CHOOSE i \in 1..Len(rooms[roomId].participants) :
                rooms[roomId].participants[i].socketId = p].isMuted

\* one page joined a room whose other participant was muted, and another
\* page of the room saw that participant mute; all messages are handled
C38_Witness ==
  /\ Quiet
  /\ \E roomId \in DOMAIN rooms :
       \E p \in Members(rooms, roomId) :
         /\ localMuted[p]
         /\ \E m \in Members(rooms, roomId) :
              \E n \in Members(rooms, roomId) :
                /\ JoinedBefore(m, p)
                /\ JoinedBefore(p, n)
                /\ participants[m][p].isMuted
                /\ participants[n][p].isMuted
====
